---- MODULE Spec2Model ----
(***************************************************************************)
(* State-machine model of the dual-bank image selection of                 *)
(* boot/bootutil/src/knot_loader.c (boot_go and its helpers) and of the    *)
(* preference store facade boot/zephyr/storage.c.                          *)
(*                                                                         *)
(* The collaborators that are outside the modelled files (flash map, NVS,  *)
(* image validator) are modelled by their results: each call draws its     *)
(* result from the set of results the collaborator can give.  The result   *)
(* drawn at a call site is remembered in `env`, so that a later boot       *)
(* attempt can be run against the same collaborator behaviour.             *)
(***************************************************************************)
EXTENDS Integers, Sequences, FiniteSets, TLC

(***************************************************************************)
(* Bounds of the model.                                                    *)
(***************************************************************************)
\* number of boot attempts explored in one behaviour
MaxAttempts == 2
\* largest preference byte found in the store before the first attempt
MaxSetup == 2
\* longest sector table drawn for the compatibility check
MaxNumSectors == 3
\* largest sector size drawn for the compatibility check
MaxSectorSize == 2
\* number of calls made to storage.c when it is driven alone
MaxCalls == 2
\* largest write alignment drawn for a region
MaxAlign == 4

(***************************************************************************)
(* Program constants.                                                      *)
(***************************************************************************)
BOOT_NUM_SLOTS == 2
\* scaled-down build configuration value (the build's default is 128)
BOOT_MAX_IMG_SECTORS == 2
BOOT_EFLASH == 1
BOOT_EBADIMAGE == 3
BOOT_EBADSTATUS == 5
\* 0x96f3b83d as the four bytes of the header field, lowest address first
IMAGE_MAGIC == <<61, 184, 243, 150>>
IMAGE_F_NON_BOOTABLE == 16
\* -EINVAL, the failure result of storage_get
EINVAL_RC == -22

Slots == 0 .. (BOOT_NUM_SLOTS - 1)

FLASH_AREA_IMAGE_SCRATCH == "SCRATCH"

flash_area_id_from_image_slot(s) == IF s = 0 THEN "IMAGE_0" ELSE "IMAGE_1"

Areas == {flash_area_id_from_image_slot(s) : s \in Slots} \cup {FLASH_AREA_IMAGE_SCRATCH}

\* the board's flash map: device and offset of every area
FlashMap ==
    [a \in Areas |->
        IF a = "IMAGE_0" THEN [fa_device_id |-> 0, fa_off |-> 1]
        ELSE IF a = "IMAGE_1" THEN [fa_device_id |-> 0, fa_off |-> 2]
        ELSE [fa_device_id |-> 0, fa_off |-> 3]]

boot_img_slot_off(s) == FlashMap[flash_area_id_from_image_slot(s)].fa_off

(***************************************************************************)
(* Image headers.                                                          *)
(***************************************************************************)
ErasedMagic(ev) == <<ev, ev, ev, ev>>

\* the magic fields a bank can hold: erased (0xff or 0x00 device), the image
\* magic, and a partly written field
MagicSet == {ErasedMagic(255), ErasedMagic(0), IMAGE_MAGIC, <<255, 255, 255, 0>>}

FlagSet == {0, IMAGE_F_NON_BOOTABLE}

Headers == [ih_magic : MagicSet, ih_flags : FlagSet]

\* static struct boot_loader_state boot_data: zero-initialised
ZeroHeader == [ih_magic |-> ErasedMagic(0), ih_flags |-> 0]

\* hdr->ih_flags & flag, for a single-bit flag
FlagSet_Has(flags, flag) == (flags \div flag) % 2 = 1


(***************************************************************************)
(* Pure helpers of knot_loader.c and storage.c.                            *)
(***************************************************************************)
\* every byte of the magic field equals the erase value
boot_magic_is_erased(erased, magic) ==
    IF \E b \in 1 .. 4 : erased # magic[b] THEN 0 ELSE 1

\* The mutant drops the erased test: an erased bank falls through to the
\* magic comparison.
boot_validate_slot_noerased(h, ev, open_ok, img_ok) ==
    IF ~open_ok
    THEN [rc |-> BOOT_EFLASH, class |-> "OpenFailed", opened |-> FALSE,
          checked |-> FALSE, closed |-> FALSE]
    ELSE IF FlagSet_Has(h.ih_flags, IMAGE_F_NON_BOOTABLE)
    THEN [rc |-> -1, class |-> "NotBootable", opened |-> TRUE,
          checked |-> FALSE, closed |-> FALSE]
    ELSE IF h.ih_magic # IMAGE_MAGIC
    THEN [rc |-> -1, class |-> "Corrupt", opened |-> TRUE,
          checked |-> FALSE, closed |-> FALSE]
    ELSE IF ~img_ok
    THEN [rc |-> -1, class |-> "Corrupt", opened |-> TRUE,
          checked |-> TRUE, closed |-> FALSE]
    ELSE [rc |-> 0, class |-> "Bootable", opened |-> TRUE,
          checked |-> TRUE, closed |-> TRUE]

\* The mutant drops the test of the non-bootable flag.
boot_validate_slot_noflag(h, ev, open_ok, img_ok) ==
    IF ~open_ok
    THEN [rc |-> BOOT_EFLASH, class |-> "OpenFailed", opened |-> FALSE,
          checked |-> FALSE, closed |-> FALSE]
    ELSE IF boot_magic_is_erased(ev, h.ih_magic) = 1
    THEN [rc |-> -1, class |-> "NotBootable", opened |-> TRUE,
          checked |-> FALSE, closed |-> FALSE]
    ELSE IF h.ih_magic # IMAGE_MAGIC
    THEN [rc |-> -1, class |-> "Corrupt", opened |-> TRUE,
          checked |-> FALSE, closed |-> FALSE]
    ELSE IF ~img_ok
    THEN [rc |-> -1, class |-> "Corrupt", opened |-> TRUE,
          checked |-> TRUE, closed |-> FALSE]
    ELSE [rc |-> 0, class |-> "Bootable", opened |-> TRUE,
          checked |-> TRUE, closed |-> TRUE]

\* The mutant joins the magic comparison and the image check with "and": a
\* bank whose magic matches is accepted without the image check.
boot_validate_slot_and(h, ev, open_ok, img_ok) ==
    IF ~open_ok
    THEN [rc |-> BOOT_EFLASH, class |-> "OpenFailed", opened |-> FALSE,
          checked |-> FALSE, closed |-> FALSE]
    ELSE IF boot_magic_is_erased(ev, h.ih_magic) = 1
            \/ FlagSet_Has(h.ih_flags, IMAGE_F_NON_BOOTABLE)
    THEN [rc |-> -1, class |-> "NotBootable", opened |-> TRUE,
          checked |-> FALSE, closed |-> FALSE]
    ELSE IF h.ih_magic # IMAGE_MAGIC /\ ~img_ok
    THEN [rc |-> -1, class |-> "Corrupt", opened |-> TRUE,
          checked |-> TRUE, closed |-> FALSE]
    ELSE [rc |-> 0, class |-> "Bootable", opened |-> TRUE,
          checked |-> h.ih_magic # IMAGE_MAGIC, closed |-> TRUE]

\* boot_validate_slot(slot, NULL) on header h of a region whose erase value is
\* ev.  open_ok is the result of flash_area_open, img_ok the result of
\* boot_image_check (bootutil_img_validate), which is evaluated only when the
\* magic matched.  The result records the return code, the class the log line
\* gives the slot, and whether the region was opened, checked and closed.
boot_validate_slot(h, ev, open_ok, img_ok) ==
    IF ~open_ok
    THEN [rc |-> BOOT_EFLASH, class |-> "OpenFailed", opened |-> FALSE,
          checked |-> FALSE, closed |-> FALSE]
    ELSE IF boot_magic_is_erased(ev, h.ih_magic) = 1
            \/ FlagSet_Has(h.ih_flags, IMAGE_F_NON_BOOTABLE)
    THEN [rc |-> -1, class |-> "NotBootable", opened |-> TRUE,
          checked |-> FALSE, closed |-> FALSE]
    ELSE IF h.ih_magic # IMAGE_MAGIC
    THEN [rc |-> -1, class |-> "Corrupt", opened |-> TRUE,
          checked |-> FALSE, closed |-> FALSE]
    ELSE IF ~img_ok
    THEN [rc |-> -1, class |-> "Corrupt", opened |-> TRUE,
          checked |-> TRUE, closed |-> FALSE]
    ELSE [rc |-> 0, class |-> "Bootable", opened |-> TRUE,
          checked |-> TRUE, closed |-> TRUE]

\* the loop of boot_slots_compatible over the sector indices i .. n-1
RECURSIVE SectorSizesMatch(_, _, _, _)
SectorSizesMatch(t0, t1, i, n) ==
    IF i >= n THEN 1
    ELSE IF t0[i + 1] # t1[i + 1] THEN 0
    ELSE SectorSizesMatch(t0, t1, i + 1, n)

\* The mutant starts the comparison at the second sector.
boot_slots_compatible_skipfirst(t0, t1) ==
    IF Len(t0) > BOOT_MAX_IMG_SECTORS \/ Len(t1) > BOOT_MAX_IMG_SECTORS THEN 0
    ELSE IF Len(t0) # Len(t1) THEN 0
    ELSE SectorSizesMatch(t0, t1, 1, Len(t0))

\* boot_slots_compatible() on the sector tables t0, t1 of bank 0 and bank 1;
\* boot_img_num_sectors is the table's length
boot_slots_compatible(t0, t1) ==
    IF Len(t0) > BOOT_MAX_IMG_SECTORS \/ Len(t1) > BOOT_MAX_IMG_SECTORS THEN 0
    ELSE IF Len(t0) # Len(t1) THEN 0
    ELSE SectorSizesMatch(t0, t1, 0, Len(t0))

\* the NVS record of a key: absent, or one byte
NoRecord == [present |-> FALSE, setup |-> 0]
Record(v) == [present |-> TRUE, setup |-> v]

\* enum storage_key
STORAGE_KEY_NET_SETTINGS == 65530
STORAGE_KEY_ID == 65535

\* sizeof(struct net_settings)
SizeofNetSettings == 1

\* what nvs_read returns for a record: its length when the record is there
\* and the read did not fail, an error code otherwise
NvsReadLen(record, io_ok) ==
    IF io_ok /\ record.present THEN SizeofNetSettings ELSE EINVAL_RC

\* what nvs_write returns: the number of bytes written, or an error code
NvsWriteResult(io_ok) == IF io_ok THEN SizeofNetSettings ELSE EINVAL_RC

\* storage_get(key, buf): read_len is what nvs_read returns and data what it
\* puts into the buffer; read tells whether nvs_read was called
storage_get(key, read_len, data, buf) ==
    IF key # STORAGE_KEY_NET_SETTINGS
    THEN [rc |-> EINVAL_RC, buf |-> buf, read |-> FALSE]
    ELSE IF read_len # SizeofNetSettings
    THEN [rc |-> EINVAL_RC, buf |-> buf, read |-> TRUE]
    ELSE [rc |-> 0, buf |-> data, read |-> TRUE]

\* storage_set(key, buf): the result of nvs_write(key, buf) is returned as it
\* is; w is that result, record the record found under key.  Gives the return
\* code and the record under key after the call.
storage_set(key, record, w, buf) ==
    [rc |-> w, ok |-> w >= 0, key |-> key,
     record |-> IF w >= 0 THEN Record(buf) ELSE record]


\* storage_reset(): nvs_delete of the preference key; w is its result
storage_reset(record, w) ==
    [rc |-> w, record |-> IF w = 0 THEN NoRecord ELSE record]

(***************************************************************************)
(* State.                                                                  *)
(***************************************************************************)
VARIABLES
    pc,           \* position of control in boot_go
    i,            \* the loop index of boot_go
    slot,         \* the bank boot_go selected, BOOT_NUM_SLOTS when none
    rc,           \* boot_go's result code
    flash,        \* the header each bank holds in flash
    erased_val,   \* flash_area_erased_val of the image banks' device
    hdr,          \* boot_data.imgs[s].hdr
    img_status,   \* static int img_status[BOOT_NUM_SLOTS]
    rd_settings,  \* rd_settings.setup
    nvs,          \* the stored record of STORAGE_KEY_NET_SETTINGS
    rsp,          \* the caller's struct boot_rsp
    fa_log,       \* flash_area_open/close calls of this attempt, in order
    store_log,    \* storage_init/get/set calls of this attempt, in order
    val,          \* what boot_validate_slot did to each bank in this attempt
    attempt,      \* number of the boot attempt
    env,          \* the collaborator result drawn at each call site
    replay,       \* this attempt runs against the previous attempt's results
    nvs0,         \* the stored record when this attempt started
    prev,         \* how the previous attempt ended
    wrote_default,\* a default written over an absent record has been stored
    cold,         \* this attempt started from zeroed statics
    sectors,      \* boot_data.imgs[s].sectors, the banks' sector tables
    compat,       \* result of boot_slots_compatible, -1 before the call
    st,           \* the store and the last call when storage.c is driven alone
    align,        \* flash_area_align of every region
    write_sz,     \* boot_data.write_sz
    log           \* the BOOT_LOG_* lines of this attempt, in order

vars == <<pc, i, slot, rc, flash, erased_val, hdr, img_status, rd_settings,
          nvs, rsp, fa_log, store_log, val, attempt, env, replay, nvs0, prev,
          wrote_default, cold, sectors, compat, st,
                   align, write_sz, log>>

boot_vars == <<pc, i, slot, rc, flash, erased_val, hdr, img_status,
               rd_settings, nvs, rsp, fa_log, store_log, val, attempt, env,
               replay, nvs0, prev, wrote_default, cold>>

\* the call sites whose collaborator result is drawn
Sites == {"sectors", "hdr0", "hdr1", "fap0", "fap1", "vopen0", "vopen1",
          "vcheck0", "vcheck1", "init", "get1", "set", "get2"}

NoEnv == [c \in Sites |-> "unset"]

\* the results a call site can give: the one drawn before when the attempt
\* replays, any of S otherwise
Results(site, S) == IF env[site] # "unset" THEN {env[site]} ELSE S

SiteOf(name, s) == IF s = 0 THEN name \o "0" ELSE name \o "1"

\* the caller's descriptor before boot_go fills it; written tells whether
\* the current call of boot_go has filled it
NoRsp == [written |-> FALSE, br_flash_dev_id |-> 0, br_image_off |-> 0,
          br_hdr |-> BOOT_NUM_SLOTS]

NoVal == [class |-> "Unvalidated", checked |-> FALSE, passed |-> FALSE]

NoPrev == [kind |-> "none", rc |-> 0, rsp |-> NoRsp, nvs0 |-> NoRecord]

FaEvent(op, area) == [op |-> op, area |-> area]

StoreEvent(op, v, ok) == [op |-> op, val |-> v, ok |-> ok]

\* a BOOT_LOG_ERR / BOOT_LOG_WRN / BOOT_LOG_INF line and its argument
LogEntry(level, msg, arg) == [level |-> level, msg |-> msg, arg |-> arg]

\* the keys storage.c is called with when it is driven alone: two members of
\* enum storage_key and a value that is no member
StKeys == {STORAGE_KEY_NET_SETTINGS, STORAGE_KEY_ID, 0}

\* no call of storage.c has been made; the store is empty
StIdle ==
    [store |-> [k \in StKeys |-> NoRecord],
     before |-> [k \in StKeys |-> NoRecord],
     op |-> "none", key |-> 0, len |-> 0, rc |-> 0, read |-> FALSE,
     buf |-> 0, calls |-> 0]

\* the write alignment of the board's regions when boot_go is run as a whole
BoardAlign == [a \in Areas |-> 1]

\* the zero-initialised statics and the fresh per-attempt bookkeeping
StaticsInit ==
    /\ hdr = [s \in Slots |-> ZeroHeader]
    /\ img_status = [s \in Slots |-> 0]
    /\ rd_settings = 0
    /\ write_sz = 0
    /\ rsp = NoRsp

AttemptInit ==
    /\ pc = "start"
    /\ i = 0
    /\ slot = BOOT_NUM_SLOTS
    /\ rc = 0
    /\ fa_log = <<>>
    /\ store_log = <<>>
    /\ log = <<>>
    /\ val = [s \in Slots |-> NoVal]

Init ==
    /\ StaticsInit
    /\ AttemptInit
    /\ flash \in [Slots -> Headers]
    /\ erased_val \in {255, 0}
    /\ nvs \in {NoRecord} \cup {Record(v) : v \in 0 .. MaxSetup}
    /\ nvs0 = nvs
    /\ attempt = 1
    /\ env = NoEnv
    /\ replay = FALSE
    /\ prev = NoPrev
    /\ wrote_default = FALSE
    /\ cold = TRUE
    /\ sectors = [s \in Slots |-> <<>>]
    /\ compat = -1
    /\ st = StIdle
    /\ align = BoardAlign


(***************************************************************************)
(* boot_go, one action per step.                                           *)
(***************************************************************************)
\* Open boot_data image areas and the scratch area for the duration of the
\* call; the code asserts that these opens succeed.
OpenAreas ==
    /\ pc = "start"
    /\ fa_log' = fa_log \o
                 [s \in 1 .. BOOT_NUM_SLOTS |->
                     FaEvent("open", flash_area_id_from_image_slot(s - 1))]
                 \o <<FaEvent("open", FLASH_AREA_IMAGE_SCRATCH)>>
    /\ pc' = "sectors"
    /\ UNCHANGED <<i, slot, rc, flash, erased_val, hdr, img_status,
                   rd_settings, nvs, rsp, store_log, val, attempt, env,
                   replay, nvs0, prev, wrote_default, cold, sectors, compat, st,
                   align, write_sz, log>>

\* The mutant takes the alignment of bank 0 without looking at the scratch
\* region.
boot_write_sz_bank0(al) == al["IMAGE_0"] % 256

\* boot_write_sz(): the bigger of the alignments of bank 0 and of the scratch
\* region, as a uint8_t; al gives flash_area_align of every region
boot_write_sz(al) ==
    LET elem_sz == al["IMAGE_0"] % 256
        algn == al[FLASH_AREA_IMAGE_SCRATCH] % 256
    IN IF algn > elem_sz THEN algn ELSE elem_sz

\* The mutant tests the result of the first boot_initialize_area call only.
boot_read_sectors_first(r) == IF r = "fail0" THEN BOOT_EFLASH ELSE 0

\* boot_read_sectors(): r tells which boot_initialize_area call failed, if any
boot_read_sectors(r) == IF r = "ok" THEN 0 ELSE BOOT_EFLASH

ReadSectors ==
    /\ pc = "sectors"
    /\ \E r \in Results("sectors", {"ok", "fail0", "fail1"}) :
        /\ env' = [env EXCEPT !["sectors"] = r]
        /\ rc' = boot_read_sectors(r)
        /\ write_sz' = IF rc' = 0 THEN boot_write_sz(align) ELSE write_sz
        /\ log' = IF rc' # 0
                  THEN Append(log, LogEntry("WRN", "Failed reading sectors",
                                            BOOT_MAX_IMG_SECTORS))
                  ELSE log
        /\ pc' = IF rc' # 0 THEN "out" ELSE "hdr"
    /\ i' = 0
    /\ UNCHANGED <<slot, flash, erased_val, hdr, img_status, rd_settings,
                   nvs, rsp, fa_log, store_log, val, attempt, replay, nvs0,
                   prev, wrote_default, cold, sectors, compat, st, align>>

\* boot_read_image_header(s, &hdr[s]): r is the result of the region open and
\* read, t the region the uninitialised handle happens to name when the open
\* failed.  Gives the return code, the header buffer and the handle calls.
boot_read_image_header(s, r, t, buf, content) ==
    LET area == flash_area_id_from_image_slot(s) IN
    IF r = "open_fail"
    THEN [rc |-> BOOT_EFLASH, hdr |-> buf,
          fa |-> <<FaEvent("close_uninit", t)>>]
    ELSE IF r = "read_fail"
    THEN [rc |-> BOOT_EFLASH, hdr |-> buf,
          fa |-> <<FaEvent("open", area), FaEvent("close", area)>>]
    ELSE [rc |-> 0, hdr |-> content,
          fa |-> <<FaEvent("open", area), FaEvent("close", area)>>]

\* one iteration of "Attempt to read image header for all slots"
ReadImageHeader ==
    /\ pc = "hdr"
    /\ \E r \in Results(SiteOf("hdr", i), {"ok", "open_fail", "read_fail"}) :
       \E t \in IF r = "open_fail"
                THEN Results(SiteOf("fap", i), Areas \cup {"garbage"})
                ELSE {"unset"} :
        LET res == boot_read_image_header(i, r, t, hdr[i], flash[i]) IN
        /\ env' = [env EXCEPT ![SiteOf("hdr", i)] = r,
                              ![SiteOf("fap", i)] = t]
        /\ img_status' = [img_status EXCEPT ![i] = res.rc]
        /\ hdr' = [hdr EXCEPT ![i] = res.hdr]
        /\ fa_log' = fa_log \o res.fa
    /\ i' = i + 1
    /\ pc' = IF i' < BOOT_NUM_SLOTS THEN "hdr" ELSE "hdr_check"
    /\ UNCHANGED <<slot, rc, flash, erased_val, rd_settings, nvs, rsp,
                   store_log, val, attempt, replay, nvs0, prev,
                   wrote_default, cold, sectors, compat, st,
                   align, write_sz, log>>

\* The mutant gives up as soon as one header read failed.
HeaderCheck_either ==
    /\ pc = "hdr_check"
    /\ IF img_status[0] # 0 \/ img_status[1] # 0
       THEN rc' = BOOT_EBADIMAGE /\ pc' = "out"
       ELSE rc' = rc /\ pc' = "validate"
    /\ log' = IF pc' = "out"
              THEN Append(log, LogEntry("ERR", "Panic: Found invalid headers", 0))
              ELSE log
    /\ i' = 0
    /\ UNCHANGED <<slot, flash, erased_val, hdr, img_status, rd_settings,
                   nvs, rsp, fa_log, store_log, val, attempt, env, replay,
                   nvs0, prev, wrote_default, cold, sectors, compat, st,
                   align, write_sz>>

\* if ( img_status[0] && img_status[1] ) after the header reads
HeaderCheck ==
    /\ pc = "hdr_check"
    /\ IF img_status[0] # 0 /\ img_status[1] # 0
       THEN rc' = BOOT_EBADIMAGE /\ pc' = "out"
       ELSE rc' = rc /\ pc' = "validate"
    /\ log' = IF pc' = "out"
              THEN Append(log, LogEntry("ERR", "Panic: Found invalid headers", 0))
              ELSE log
    /\ i' = 0
    /\ UNCHANGED <<slot, flash, erased_val, hdr, img_status, rd_settings,
                   nvs, rsp, fa_log, store_log, val, attempt, env, replay,
                   nvs0, prev, wrote_default, cold, sectors, compat, st,
                   align, write_sz>>

\* the log line of one boot_validate_slot call
ValidateLog(s, res) ==
    IF res.class = "NotBootable"
    THEN <<LogEntry("INF", "Image in slot is not bootable!", s)>>
    ELSE IF res.class = "Corrupt"
    THEN <<LogEntry("ERR", "Image in slot is not valid!", s)>>
    ELSE <<>>

\* the handle calls of one boot_validate_slot call
ValidateFaEvents(s, res) ==
    LET area == flash_area_id_from_image_slot(s) IN
    (IF res.opened THEN <<FaEvent("open", area)>> ELSE <<>>)
    \o (IF res.closed THEN <<FaEvent("close", area)>> ELSE <<>>)

\* one iteration of "Attempt to validate both slots"; c is the result the
\* image validator gives if it is called
ValidateSlot ==
    /\ pc = "validate"
    /\ \E o \in Results(SiteOf("vopen", i), {"ok", "fail"}) :
       \E c \in Results(SiteOf("vcheck", i), {"pass", "fail"}) :
        LET res == boot_validate_slot(hdr[i], erased_val, o = "ok", c = "pass") IN
        /\ env' = [env EXCEPT ![SiteOf("vopen", i)] = o,
                              ![SiteOf("vcheck", i)] =
                                  IF res.checked THEN c ELSE @]
        /\ img_status' = [img_status EXCEPT ![i] = res.rc]
        /\ val' = [val EXCEPT ![i] = [class |-> res.class,
                                      checked |-> res.checked,
                                      passed |-> res.checked /\ c = "pass"]]
        /\ log' = log \o ValidateLog(i, res)
        /\ fa_log' = fa_log \o ValidateFaEvents(i, res)
    /\ i' = i + 1
    /\ pc' = IF i' < BOOT_NUM_SLOTS THEN "validate" ELSE "validate_check"
    /\ UNCHANGED <<slot, rc, flash, erased_val, hdr, rd_settings, nvs, rsp,
                   store_log, attempt, replay, nvs0, prev, wrote_default,
                   cold, sectors, compat, st,
                   align, write_sz>>

\* The mutant takes only positive codes for failures, as the panic test of
\* boot_go does: the -1 of boot_validate_slot passes.
ValidateCheck_positive ==
    /\ pc = "validate_check"
    /\ IF img_status[0] > 0 /\ img_status[1] > 0
       THEN rc' = BOOT_EBADSTATUS /\ pc' = "out"
       ELSE rc' = rc /\ pc' = "storage_init"
    /\ log' = IF pc' = "out"
              THEN Append(log, LogEntry("ERR",
                                        "Panic: Found invalid data on slots", 0))
              ELSE log
    /\ UNCHANGED <<i, slot, flash, erased_val, hdr, img_status, rd_settings,
                   nvs, rsp, fa_log, store_log, val, attempt, env, replay,
                   nvs0, prev, wrote_default, cold, sectors, compat, st,
                   align, write_sz>>

\* if ( img_status[0] && img_status[1] ) after the validation
ValidateCheck ==
    /\ pc = "validate_check"
    /\ IF img_status[0] # 0 /\ img_status[1] # 0
       THEN rc' = BOOT_EBADSTATUS /\ pc' = "out"
       ELSE rc' = rc /\ pc' = "storage_init"
    /\ log' = IF pc' = "out"
              THEN Append(log, LogEntry("ERR",
                                        "Panic: Found invalid data on slots", 0))
              ELSE log
    /\ UNCHANGED <<i, slot, flash, erased_val, hdr, img_status, rd_settings,
                   nvs, rsp, fa_log, store_log, val, attempt, env, replay,
                   nvs0, prev, wrote_default, cold, sectors, compat, st,
                   align, write_sz>>

\* retfs = storage_init()
StorageInit ==
    /\ pc = "storage_init"
    /\ \E r \in Results("init", {"ok", "fail"}) :
        /\ env' = [env EXCEPT !["init"] = r]
        /\ store_log' = Append(store_log, StoreEvent("init", 0, r = "ok"))
        /\ log' = IF r = "ok" THEN log
                  ELSE Append(log, LogEntry("ERR", "Unable to init nvs", 0))
        /\ IF r = "ok"
           THEN rc' = rc /\ pc' = "get1"
           ELSE rc' = BOOT_EBADSTATUS /\ pc' = "out"
    /\ UNCHANGED <<i, slot, flash, erased_val, hdr, img_status, rd_settings,
                   nvs, rsp, fa_log, val, attempt, replay, nvs0, prev,
                   wrote_default, cold, sectors, compat, st,
                   align, write_sz>>

\* The mutant writes the default whatever the first read returned.
GetPreference_alwaysset ==
    /\ pc = "get1"
    /\ \E r \in Results("get1", {"ok", "fail"}) :
        LET res == storage_get(STORAGE_KEY_NET_SETTINGS,
                               NvsReadLen(nvs, r = "ok"), nvs.setup,
                               rd_settings) IN
        /\ env' = [env EXCEPT !["get1"] = r]
        /\ rd_settings' = res.buf
        /\ store_log' = Append(store_log, StoreEvent("get", res.buf, res.rc = 0))
        /\ log' = IF res.rc # 0
                  THEN Append(log, LogEntry("ERR", "Unable to read nvs", 0))
                  ELSE log
        /\ pc' = "set"
    /\ UNCHANGED <<i, slot, rc, flash, erased_val, hdr, img_status, nvs, rsp,
                   fa_log, val, attempt, replay, nvs0, prev, wrote_default,
                   cold, sectors, compat, st,
                   align, write_sz>>

\* the first storage_get(STORAGE_KEY_NET_SETTINGS, &rd_settings)
GetPreference ==
    /\ pc = "get1"
    /\ \E r \in Results("get1", {"ok", "fail"}) :
        LET res == storage_get(STORAGE_KEY_NET_SETTINGS,
                               NvsReadLen(nvs, r = "ok"), nvs.setup,
                               rd_settings) IN
        /\ env' = [env EXCEPT !["get1"] = r]
        /\ rd_settings' = res.buf
        /\ store_log' = Append(store_log, StoreEvent("get", res.buf, res.rc = 0))
        /\ log' = IF res.rc # 0
                  THEN Append(log, LogEntry("ERR", "Unable to read nvs", 0))
                  ELSE log
        /\ pc' = IF res.rc # 0 THEN "set" ELSE "get2"
    /\ UNCHANGED <<i, slot, rc, flash, erased_val, hdr, img_status, nvs, rsp,
                   fa_log, val, attempt, replay, nvs0, prev, wrote_default,
                   cold, sectors, compat, st,
                   align, write_sz>>

\* u8_t boot_slot = 1, the preference written when the first read failed
boot_slot == 1

\* The mutant sets the default in rd_settings only and does not store it.
SetDefault_nowrite ==
    /\ pc = "set"
    /\ rd_settings' = boot_slot
    /\ pc' = "get2"
    /\ UNCHANGED <<i, slot, rc, flash, erased_val, hdr, img_status, nvs, rsp,
                   fa_log, store_log, val, attempt, env, replay, nvs0, prev,
                   wrote_default, cold, sectors, compat, st,
                   align, write_sz, log>>

\* rd_settings.setup = boot_slot; storage_set(STORAGE_KEY_NET_SETTINGS, ...)
SetDefault ==
    /\ pc = "set"
    /\ \E r \in Results("set", {"ok", "fail"}) :
        LET res == storage_set(STORAGE_KEY_NET_SETTINGS, nvs,
                               NvsWriteResult(r = "ok"), boot_slot) IN
        /\ env' = [env EXCEPT !["set"] = r]
        /\ rd_settings' = boot_slot
        /\ nvs' = res.record
        /\ store_log' = Append(store_log, StoreEvent("set", boot_slot, res.ok))
        /\ log' = IF res.rc # 0
                  THEN Append(log, LogEntry("ERR", "Unable to store nvs", 0))
                  ELSE log
        /\ wrote_default' = (wrote_default \/ (res.ok /\ ~nvs.present))
    /\ pc' = "get2"
    /\ UNCHANGED <<i, slot, rc, flash, erased_val, hdr, img_status, rsp,
                   fa_log, val, attempt, replay, nvs0, prev, cold, sectors,
                   compat, st,
                   align, write_sz>>

\* "Get selected slot for boot": the second storage_get
ReadPreference ==
    /\ pc = "get2"
    /\ \E r \in Results("get2", {"ok", "fail"}) :
        LET res == storage_get(STORAGE_KEY_NET_SETTINGS,
                               NvsReadLen(nvs, r = "ok"), nvs.setup,
                               rd_settings) IN
        /\ env' = [env EXCEPT !["get2"] = r]
        /\ rd_settings' = res.buf
        /\ store_log' = Append(store_log, StoreEvent("get", res.buf, res.rc = 0))
        /\ log' = IF res.rc # 0
                  THEN Append(log, LogEntry("ERR", "Unable to read nvs", 0))
                  ELSE log \o <<LogEntry("INF", "Mcuboot flash offset area", 0),
                                LogEntry("INF", "Boot area stored value", res.buf)>>
        /\ IF res.rc # 0
           THEN rc' = BOOT_EBADSTATUS /\ pc' = "out2"
           ELSE rc' = rc /\ pc' = "select"
    /\ UNCHANGED <<i, slot, flash, erased_val, hdr, img_status, nvs, rsp,
                   fa_log, val, attempt, replay, nvs0, prev, wrote_default,
                   cold, sectors, compat, st,
                   align, write_sz>>

\* The mutant falls back to bank 0 when the preferred bank 1 is not valid.
SelectSlot_fallback0(setup, status) ==
    IF setup = 0 /\ status[0] = 0 THEN 0
    ELSE IF setup > 0 /\ status[1] = 0 THEN 1
    ELSE IF setup > 0 /\ status[0] = 0 THEN 0
    ELSE BOOT_NUM_SLOTS

\* The mutant takes only the value 1 for "prefer bank 1".
SelectSlot_eq1(setup, status) ==
    IF setup = 0 /\ status[0] = 0 THEN 0
    ELSE IF setup = 1 /\ status[1] = 0 THEN 1
    ELSE BOOT_NUM_SLOTS

\* the bank the preference and the validation results select,
\* BOOT_NUM_SLOTS when there is none
SelectSlot(setup, status) ==
    IF setup = 0 /\ status[0] = 0 THEN 0
    ELSE IF setup > 0 /\ status[1] = 0 THEN 1
    ELSE BOOT_NUM_SLOTS

\* "test valid image on slot 0 / slot 1"
Select ==
    /\ pc = "select"
    /\ LET s == SelectSlot(rd_settings, img_status) IN
        IF s < BOOT_NUM_SLOTS
        THEN slot' = s /\ rc' = rc /\ pc' = "final"
        ELSE slot' = slot /\ rc' = BOOT_EBADIMAGE /\ pc' = "out"
    /\ UNCHANGED <<i, flash, erased_val, hdr, img_status, rd_settings, nvs,
                   rsp, fa_log, store_log, val, attempt, env, replay, nvs0,
                   prev, wrote_default, cold, sectors, compat, st,
                   align, write_sz, log>>

\* The mutant adds the offset to the field instead of assigning it.
Descriptor_accumulate(s, old) ==
    [written |-> TRUE,
     br_flash_dev_id |-> FlashMap[flash_area_id_from_image_slot(s)].fa_device_id,
     br_image_off |-> old.br_image_off + boot_img_slot_off(s),
     br_hdr |-> s]

\* the descriptor boot_go writes for bank s over the caller's struct old
Descriptor(s, old) ==
    [written |-> TRUE,
     br_flash_dev_id |-> FlashMap[flash_area_id_from_image_slot(s)].fa_device_id,
     br_image_off |-> boot_img_slot_off(s),
     br_hdr |-> s]

\* "test header of selected boot image" and the hand-off
FinalCheck ==
    /\ pc = "final"
    /\ IF hdr[slot].ih_magic # IMAGE_MAGIC
       THEN rc' = BOOT_EBADIMAGE /\ rsp' = rsp
       ELSE IF img_status[slot] = 0
       THEN rc' = 0 /\ rsp' = Descriptor(slot, rsp)
       ELSE rc' = BOOT_EBADSTATUS /\ rsp' = rsp
    /\ log' = IF rc' = 0
              THEN Append(log, LogEntry("INF", "Slot selected", slot))
              ELSE log
    /\ pc' = "out"
    /\ UNCHANGED <<i, slot, flash, erased_val, hdr, img_status, rd_settings,
                   nvs, fa_log, store_log, val, attempt, env, replay, nvs0,
                   prev, wrote_default, cold, sectors, compat, st,
                   align, write_sz>>

\* The mutant tries bank 0 when bank 1 cannot be booted.
Fallback_anybank ==
    /\ pc = "out2"
    /\ slot' = IF img_status[1] # 0 /\ img_status[0] = 0 THEN 0 ELSE 1
    /\ IF img_status[slot'] = 0 /\ hdr[slot'].ih_magic = IMAGE_MAGIC
       THEN rc' = 0 /\ rsp' = Descriptor(slot', rsp)
       ELSE rc' = BOOT_EBADSTATUS /\ rsp' = rsp
    /\ log' = IF rc' = 0
              THEN Append(log, LogEntry("INF", "Slot selected", slot'))
              ELSE log
    /\ pc' = "out"
    /\ UNCHANGED <<i, flash, erased_val, hdr, img_status, rd_settings, nvs,
                   fa_log, store_log, val, attempt, env, replay, nvs0, prev,
                   wrote_default, cold, sectors, compat, st,
                   align, write_sz>>

\* out2: the preference could not be read, try bank 1
Fallback ==
    /\ pc = "out2"
    /\ slot' = 1
    /\ IF img_status[slot'] = 0 /\ hdr[slot'].ih_magic = IMAGE_MAGIC
       THEN rc' = 0 /\ rsp' = Descriptor(slot', rsp)
       ELSE rc' = BOOT_EBADSTATUS /\ rsp' = rsp
    /\ log' = IF rc' = 0
              THEN Append(log, LogEntry("INF", "Slot selected", slot'))
              ELSE log
    /\ pc' = "out"
    /\ UNCHANGED <<i, flash, erased_val, hdr, img_status, rd_settings, nvs,
                   fa_log, store_log, val, attempt, env, replay, nvs0, prev,
                   wrote_default, cold, sectors, compat, st,
                   align, write_sz>>

\* the panic branch: assert(0), then the error line with the code, then the
\* loop.  In a build with assertions the assert stops the processor and the
\* line is not reached.
PanicLog(asserting, lg, code) ==
    IF asserting THEN lg
    ELSE Append(lg, LogEntry("ERR", "Panic: Invalid image data or status", code))

\* The mutant closes the regions in the order they were opened.
Out_forward ==
    /\ pc = "out"
    /\ fa_log' = fa_log \o
                 [s \in 1 .. BOOT_NUM_SLOTS |->
                     FaEvent("close", flash_area_id_from_image_slot(s - 1))]
                 \o <<FaEvent("close", FLASH_AREA_IMAGE_SCRATCH)>>
    /\ IF rc > 0
       THEN /\ pc' = "halt"
            /\ \E asserting \in BOOLEAN : log' = PanicLog(asserting, log, rc)
       ELSE /\ pc' = "returned"
            /\ log' = log
    /\ UNCHANGED <<i, slot, rc, flash, erased_val, hdr, img_status,
                   rd_settings, nvs, rsp, store_log, val, attempt, env,
                   replay, nvs0, prev, wrote_default, cold, sectors, compat, st,
                   align, write_sz>>

\* The mutant expects errno-style negative codes.
Halts_negative(code) == code < 0

\* if ( rc > 0 ): the panic loop is entered instead of returning
Halts(code) == code > 0

\* out: close the scratch area and the image areas, then halt or return
Out ==
    /\ pc = "out"
    /\ fa_log' = fa_log \o <<FaEvent("close", FLASH_AREA_IMAGE_SCRATCH)>> \o
                 [s \in 1 .. BOOT_NUM_SLOTS |->
                     FaEvent("close",
                             flash_area_id_from_image_slot(BOOT_NUM_SLOTS - s))]
    /\ IF Halts(rc)
       THEN /\ pc' = "halt"
            /\ \E asserting \in BOOLEAN : log' = PanicLog(asserting, log, rc)
       ELSE /\ pc' = "returned"
            /\ log' = log
    /\ UNCHANGED <<i, slot, rc, flash, erased_val, hdr, img_status,
                   rd_settings, nvs, rsp, store_log, val, attempt, env,
                   replay, nvs0, prev, wrote_default, cold, sectors, compat, st,
                   align, write_sz>>

(***************************************************************************)
(* The next boot attempt.                                                  *)
(***************************************************************************)
Finished == pc \in {"returned", "halt"}

Outcome ==
    [kind |-> IF pc = "returned" THEN "handoff" ELSE "halt",
     rc |-> rc, rsp |-> rsp, nvs0 |-> nvs0]

\* the bookkeeping of a new attempt; again tells whether the collaborators
\* behave as in the attempt that just ended
NewAttempt(again) ==
    /\ attempt < MaxAttempts
    /\ attempt' = attempt + 1
    /\ pc' = "start"
    /\ i' = 0
    /\ slot' = BOOT_NUM_SLOTS
    /\ rc' = 0
    /\ fa_log' = <<>>
    /\ store_log' = <<>>
    /\ log' = <<>>
    /\ val' = [s \in Slots |-> NoVal]
    /\ nvs0' = nvs
    /\ replay' = again
    /\ env' = IF again THEN env ELSE NoEnv
    /\ prev' = IF again THEN Outcome ELSE NoPrev
    /\ UNCHANGED <<flash, erased_val, nvs, wrote_default, sectors, compat, st,
                   align>>

\* the caller calls boot_go again: the statics keep what the last call left
CallAgain ==
    /\ pc = "returned"
    /\ \E again \in BOOLEAN : NewAttempt(again)
    /\ rsp' = [rsp EXCEPT !.written = FALSE]
    /\ cold' = FALSE
    /\ UNCHANGED <<hdr, img_status, rd_settings, write_sz>>

\* the device is reset: the statics are zero again, flash and store are kept.
\* The new attempt is compared with the last one only when that one started
\* from zeroed statics too.
Reset ==
    /\ Finished
    /\ \E again \in (IF cold THEN BOOLEAN ELSE {FALSE}) : NewAttempt(again)
    /\ cold' = TRUE
    /\ hdr' = [s \in Slots |-> ZeroHeader]
    /\ img_status' = [s \in Slots |-> 0]
    /\ rd_settings' = 0
    /\ write_sz' = 0
    /\ rsp' = NoRsp

Next ==
    \/ OpenAreas
    \/ ReadSectors
    \/ ReadImageHeader
    \/ HeaderCheck
    \/ ValidateSlot
    \/ ValidateCheck
    \/ StorageInit
    \/ GetPreference
    \/ SetDefault
    \/ ReadPreference
    \/ Select
    \/ FinalCheck
    \/ Fallback
    \/ Out
    \/ CallAgain
    \/ Reset

Spec == Init /\ [][Next]_vars

(***************************************************************************)
(* boot_slots_compatible on its own: the sector tables are drawn, the      *)
(* function is applied once.                                               *)
(***************************************************************************)
SectorTables ==
    UNION {[1 .. n -> 1 .. MaxSectorSize] : n \in 0 .. MaxNumSectors}

InitCompat ==
    /\ StaticsInit
    /\ AttemptInit
    /\ flash = [s \in Slots |-> ZeroHeader]
    /\ erased_val = 255
    /\ nvs = NoRecord
    /\ nvs0 = nvs
    /\ attempt = 1
    /\ env = NoEnv
    /\ replay = FALSE
    /\ prev = NoPrev
    /\ wrote_default = FALSE
    /\ cold = TRUE
    /\ sectors \in [Slots -> SectorTables]
    /\ compat = -1
    /\ st = StIdle
    /\ align = BoardAlign

SlotsCompatible ==
    /\ compat = -1
    /\ compat' = boot_slots_compatible(sectors[0], sectors[1])
    /\ UNCHANGED <<boot_vars, sectors, st, align, write_sz, log>>

NextCompat == SlotsCompatible

SpecCompat == InitCompat /\ [][NextCompat]_vars

(***************************************************************************)
(* The geometry resolution on its own: the regions' write alignments are   *)
(* drawn, the areas are open, and boot_read_sectors is called once.        *)
(***************************************************************************)
InitSectors ==
    /\ StaticsInit
    /\ i = 0
    /\ slot = BOOT_NUM_SLOTS
    /\ rc = 0
    /\ pc = "sectors"
    /\ fa_log = [s \in 1 .. BOOT_NUM_SLOTS |->
                    FaEvent("open", flash_area_id_from_image_slot(s - 1))]
                \o <<FaEvent("open", FLASH_AREA_IMAGE_SCRATCH)>>
    /\ store_log = <<>>
    /\ log = <<>>
    /\ val = [s \in Slots |-> NoVal]
    /\ flash = [s \in Slots |-> ZeroHeader]
    /\ erased_val = 255
    /\ nvs = NoRecord
    /\ nvs0 = nvs
    /\ attempt = 1
    /\ env = NoEnv
    /\ replay = FALSE
    /\ prev = NoPrev
    /\ wrote_default = FALSE
    /\ cold = TRUE
    /\ sectors = [s \in Slots |-> <<>>]
    /\ compat = -1
    /\ st = StIdle
    /\ align \in [Areas -> 1 .. MaxAlign]

NextSectors == ReadSectors

SpecSectors == InitSectors /\ [][NextSectors]_vars

(***************************************************************************)
(* storage.c on its own: the store's content is drawn, then storage_get,   *)
(* storage_set and storage_reset are called with any key and any result of *)
(* the NVS calls.                                                          *)
(***************************************************************************)
StRecords == {NoRecord} \cup {Record(v) : v \in 0 .. MaxSetup}

InitStorage ==
    /\ StaticsInit
    /\ AttemptInit
    /\ flash = [s \in Slots |-> ZeroHeader]
    /\ erased_val = 255
    /\ nvs = NoRecord
    /\ nvs0 = nvs
    /\ attempt = 1
    /\ env = NoEnv
    /\ replay = FALSE
    /\ prev = NoPrev
    /\ wrote_default = FALSE
    /\ cold = TRUE
    /\ sectors = [s \in Slots |-> <<>>]
    /\ compat = -1
    /\ \E m \in [StKeys -> StRecords] : st = [StIdle EXCEPT !.store = m, !.before = m]
    /\ align = BoardAlign

\* the lengths nvs_read can return for a record: the record's length (the
\* size of the struct, or more when a longer record was stored under the
\* key), or an error code
NvsReadLens(record) ==
    IF record.present
    THEN {SizeofNetSettings, SizeofNetSettings + 1, EINVAL_RC}
    ELSE {EINVAL_RC}

StorageGet ==
    /\ st.calls < MaxCalls
    /\ \E key \in StKeys : \E l \in NvsReadLens(st.store[key]) :
        LET res == storage_get(key, l, st.store[key].setup, st.buf) IN
        st' = [st EXCEPT !.before = st.store, !.op = "get", !.key = key,
                         !.len = l, !.rc = res.rc, !.read = res.read,
                         !.buf = res.buf, !.calls = @ + 1]
    /\ UNCHANGED <<boot_vars, sectors, compat, align, write_sz, log>>

StorageSet ==
    /\ st.calls < MaxCalls
    /\ \E key \in StKeys : \E io_ok \in BOOLEAN : \E v \in 0 .. MaxSetup :
        LET res == storage_set(key, st.store[key], NvsWriteResult(io_ok), v) IN
        st' = [st EXCEPT !.before = st.store,
                         !.store = [st.store EXCEPT ![res.key] = res.record],
                         !.op = "set", !.key = key, !.len = 0, !.rc = res.rc,
                         !.read = FALSE, !.buf = v, !.calls = @ + 1]
    /\ UNCHANGED <<boot_vars, sectors, compat, align, write_sz, log>>

StorageReset ==
    /\ st.calls < MaxCalls
    /\ \E w \in {0, EINVAL_RC} :
        LET res == storage_reset(st.store[STORAGE_KEY_NET_SETTINGS], w) IN
        st' = [st EXCEPT !.before = st.store,
                         !.store = [st.store EXCEPT
                                       ![STORAGE_KEY_NET_SETTINGS] = res.record],
                         !.op = "reset", !.key = STORAGE_KEY_NET_SETTINGS,
                         !.len = 0, !.rc = res.rc, !.read = FALSE,
                         !.calls = @ + 1]
    /\ UNCHANGED <<boot_vars, sectors, compat, align, write_sz, log>>

NextStorage ==
    \/ StorageGet
    \/ StorageSet
    \/ StorageReset

SpecStorage == InitStorage /\ [][NextStorage]_vars


(***************************************************************************)
(* Properties.                                                             *)
(***************************************************************************)
NonBootable(h) == FlagSet_Has(h.ih_flags, IMAGE_F_NON_BOOTABLE)

\* the last call to the store in this attempt
LastStore == store_log[Len(store_log)]

\* the attempt took the fallback: its last read of the preference failed
TookFallback ==
    /\ store_log # <<>>
    /\ LastStore.op = "get"
    /\ ~LastStore.ok
    /\ pc \in {"out2", "out", "returned", "halt"}
    /\ slot = 1

\* C1: whenever boot_go has filled the hand-off descriptor or returned (on
\* the normal path or on the fallback path), the bank the descriptor names was
\* validated in this attempt with the image validator passing, its header
\* magic is IMAGE_MAGIC and its non-bootable flag is clear; a bank classed
\* NotBootable or Corrupt is never handed off to.
C1_HandOffOnlyToBootable ==
    (pc = "returned" \/ rsp.written) =>
        /\ rsp.written
        /\ rsp.br_hdr \in Slots
        /\ val[rsp.br_hdr].class = "Bootable"
        /\ val[rsp.br_hdr].checked
        /\ val[rsp.br_hdr].passed
        /\ img_status[rsp.br_hdr] = 0
        /\ hdr[rsp.br_hdr].ih_magic = IMAGE_MAGIC
        /\ ~NonBootable(hdr[rsp.br_hdr])
        /\ boot_magic_is_erased(erased_val, hdr[rsp.br_hdr].ih_magic) = 0

\* a hand-off on the fallback path while bank 0 is unusable
C1_Witness ==
    /\ pc = "returned"
    /\ TookFallback
    /\ rsp.written
    /\ rsp.br_hdr = 1
    /\ val[0].class = "Corrupt"

Unusable(s) == val[s].class \in {"NotBootable", "Corrupt"}

\* C2: once both banks have been validated as unusable (NotBootable or
\* Corrupt, in any combination), boot_go goes to the cleanup with
\* BOOT_EBADSTATUS and halts; the descriptor is not written and the
\* preference store is neither initialised, read nor written.
C2_BothUnusableIsFatal ==
    (Unusable(0) /\ Unusable(1)) =>
        /\ pc \in {"validate_check", "out", "halt"}
        /\ pc # "validate_check" => rc = BOOT_EBADSTATUS
        /\ ~rsp.written
        /\ store_log = <<>>
        /\ nvs = nvs0

\* both banks hold the image magic and fail the image check, and boot_go has
\* halted
C2_Witness ==
    /\ pc = "halt"
    /\ \A s \in Slots :
        /\ hdr[s].ih_magic = IMAGE_MAGIC
        /\ val[s].checked
        /\ ~val[s].passed
        /\ val[s].class = "Corrupt"

\* the device was reset: a new attempt starts from zeroed statics
ResetStep ==
    /\ pc' = "start"
    /\ attempt' = attempt + 1
    /\ rsp' = NoRsp
    /\ hdr' = [s \in Slots |-> ZeroHeader]

FaCount(op, a) ==
    Cardinality({k \in 1 .. Len(fa_log) :
                    fa_log[k].op = op /\ fa_log[k].area = a})

\* C4: when boot_go has returned or entered the halt loop, every region
\* handle opened in the attempt has been closed exactly once: every region
\* has as many closes as opens, and no close was made on a handle that was
\* never opened.
C4_HandlesClosedExactlyOnce ==
    Finished =>
        /\ \A a \in Areas : FaCount("open", a) = FaCount("close", a)
        /\ \A k \in 1 .. Len(fa_log) : fa_log[k].op # "close_uninit"

\* no collaborator call of this attempt failed
NoFailure == \A c \in Sites : env[c] \in {"unset", "ok", "pass"}

\* Scenario A: bank 0 holds the image magic and is flagged bootable, bank 1
\* is erased, no preference record exists
ScenarioA ==
    /\ flash[0] = [ih_magic |-> IMAGE_MAGIC, ih_flags |-> 0]
    /\ flash[1].ih_magic = ErasedMagic(erased_val)
    /\ ~nvs0.present

AfterSet(k) ==
    \E j \in 1 .. (k - 1) : store_log[j].op = "set"

\* a bank has been selected or handed off to
SelectionMade == pc \in {"select", "final", "out2"} \/ slot < BOOT_NUM_SLOTS

PreferenceRead ==
    /\ store_log # <<>>
    /\ LastStore.op = "get"
    /\ LastStore.ok
    /\ pc \in {"select", "final", "out", "returned", "halt"}

Valid(b) == val[b].class = "Bootable" /\ img_status[b] = 0

HandedOffTo(b) == pc = "returned" /\ rsp.written /\ rsp.br_hdr = b

\* C7: when the preference p was read and boot_go has finished, it handed off
\* to bank 0 iff p = 0 and bank 0 is valid, to bank 1 iff p is non-zero and
\* bank 1 is valid, and halted in every other case; the descriptor's device
\* id, image offset and header reference are those of the selected bank.
C7_SelectionRule ==
    (Finished /\ PreferenceRead) =>
        /\ HandedOffTo(0) <=> (LastStore.val = 0 /\ Valid(0))
        /\ HandedOffTo(1) <=> (LastStore.val # 0 /\ Valid(1))
        /\ pc = "halt" <=> ~(LastStore.val = 0 /\ Valid(0))
                           /\ ~(LastStore.val # 0 /\ Valid(1))
        /\ pc = "returned" =>
            /\ rsp.br_hdr = slot
            /\ rsp.br_image_off = boot_img_slot_off(slot)
            /\ rsp.br_flash_dev_id =
                 FlashMap[flash_area_id_from_image_slot(slot)].fa_device_id

\* bank 0 corrupt, bank 1 valid, a preference above 1: hand-off to bank 1
C7_Witness ==
    /\ PreferenceRead
    /\ LastStore.val > 1
    /\ val[0].class = "Corrupt"
    /\ HandedOffTo(1)

\* C8: an attempt run against the same flash contents and the same
\* collaborator results as the attempt before it, with the same stored
\* preference at its start, ends as that attempt did: same kind of end, same
\* result code, same descriptor.
C8_Idempotent ==
    (Finished /\ replay /\ nvs0 = prev.nvs0) => Outcome = prev

\* a second call of boot_go on the statics the first call left has handed
\* off again
C8_Witness ==
    /\ pc = "returned"
    /\ replay
    /\ ~cold
    /\ nvs0 = prev.nvs0
    /\ prev.kind = "handoff"
    /\ rsp.written

\* the header's magic field reads as the erased pattern of the region
ReadsErased(h) == \A b \in 1 .. 4 : h.ih_magic[b] = erased_val

\* C9: a validated bank whose magic field reads as the erased pattern, or
\* whose non-bootable flag is set, is never classed Corrupt: when its region
\* could be opened it is classed NotBootable; the image validator is not
\* called for it and its status is reported as not usable (non-zero).
C9_ErasedIsNotBootable ==
    \A s \in Slots :
        (val[s].class # "Unvalidated" /\ (ReadsErased(hdr[s]) \/ NonBootable(hdr[s]))) =>
            /\ val[s].class # "Corrupt"
            /\ val[s].class # "Bootable"
            /\ val[s].class # "OpenFailed" => val[s].class = "NotBootable"
            /\ ~val[s].checked
            /\ img_status[s] # 0

\* an erased bank 1 with its flags clear was validated as NotBootable
C9_Witness ==
    /\ ReadsErased(hdr[1])
    /\ ~NonBootable(hdr[1])
    /\ hdr[1] = flash[1]
    /\ val[1].class = "NotBootable"
    /\ img_status[1] = -1

\* C10: boot_slots_compatible returns 1 exactly when both sector counts are
\* equal, neither exceeds BOOT_MAX_IMG_SECTORS and the sizes agree at every
\* index; otherwise it returns 0.
C10_SlotsCompatible ==
    compat # -1 =>
        /\ compat \in {0, 1}
        /\ compat = 1 <=>
            /\ Len(sectors[0]) = Len(sectors[1])
            /\ Len(sectors[0]) <= BOOT_MAX_IMG_SECTORS
            /\ Len(sectors[1]) <= BOOT_MAX_IMG_SECTORS
            /\ \A k \in 1 .. Len(sectors[0]) : sectors[0][k] = sectors[1][k]

\* two full tables that differ in one sector only are reported incompatible
C10_Witness ==
    /\ compat = 0
    /\ Len(sectors[0]) = BOOT_MAX_IMG_SECTORS
    /\ Len(sectors[1]) = BOOT_MAX_IMG_SECTORS
    /\ Cardinality({k \in 1 .. BOOT_MAX_IMG_SECTORS :
                       sectors[0][k] # sectors[1][k]}) = 1

\* the geometry resolution of this attempt has run and failed for a bank
GeometryFailed ==
    /\ env["sectors"] \in {"fail0", "fail1"}
    /\ pc \notin {"start", "sectors"}

\* C11: if boot_read_sectors fails for either bank, boot_go goes from the
\* resolution straight to the cleanup with BOOT_EFLASH and halts: no image
\* header is read (each region has been opened once only, by boot_go itself),
\* no slot is validated, the preference store is neither initialised, read
\* nor written, and the descriptor is not written.
C11_GeometryFailureIsFatal ==
    GeometryFailed =>
        /\ pc \in {"out", "halt"}
        /\ rc = BOOT_EFLASH
        /\ \A a \in Areas : FaCount("open", a) = 1
        /\ \A k \in 1 .. Len(fa_log) : fa_log[k].op # "close_uninit"
        /\ \A s \in Slots : val[s] = NoVal
        /\ store_log = <<>>
        /\ nvs = nvs0
        /\ ~rsp.written

\* the resolution failed for bank 1 and boot_go has halted
C11_Witness ==
    /\ env["sectors"] = "fail1"
    /\ pc = "halt"
    /\ rc = BOOT_EFLASH

\* the second read of the preference failed in this attempt and the fallback
\* has run
FallbackTaken ==
    /\ store_log # <<>>
    /\ LastStore.op = "get"
    /\ ~LastStore.ok
    /\ pc \in {"out", "returned", "halt"}

\* the cleanup's closes are the last handle calls of the attempt
CleanupDone ==
    /\ Len(fa_log) >= 3
    /\ SubSeq(fa_log, Len(fa_log) - 2, Len(fa_log)) =
         <<FaEvent("close", FLASH_AREA_IMAGE_SCRATCH),
           FaEvent("close", "IMAGE_1"), FaEvent("close", "IMAGE_0")>>

\* C12: when the second read of the preference failed, the outcome depends on
\* bank 1 only: boot_go hands off to bank 1 iff bank 1 validated as Bootable
\* and its header magic is IMAGE_MAGIC, and ends in the BOOT_EBADSTATUS halt
\* with no descriptor otherwise; bank 0 is never handed off to, whatever its
\* state; and the cleanup closes the regions before the return or the halt.
C12_FallbackBank1Only ==
    FallbackTaken =>
        LET ok1 == val[1].class = "Bootable" /\ hdr[1].ih_magic = IMAGE_MAGIC IN
        /\ slot = 1
        /\ rsp.written <=> ok1
        /\ rsp.written => rsp.br_hdr = 1
        /\ rc = IF ok1 THEN 0 ELSE BOOT_EBADSTATUS
        /\ Finished => (pc = "returned" <=> ok1)
        /\ Finished => CleanupDone
        /\ ~HandedOffTo(0)

\* the fallback halted although bank 0 is valid
C12_Witness ==
    /\ FallbackTaken
    /\ pc = "halt"
    /\ rc = BOOT_EBADSTATUS
    /\ val[0].class = "Bootable"
    /\ val[1].class = "Corrupt"
    /\ CleanupDone

\* the calls of storage_set made in this attempt
SetCalls == {k \in 1 .. Len(store_log) : store_log[k].op = "set"}

\* C13 as stated: the default preference is written only when the record was
\* absent; when the record exists at the start of the attempt, whatever the
\* first read returns, boot_go does not call storage_set and the stored
\* preference stays what it was.
C13_OnlyNotFoundWritesDefault ==
    nvs0.present =>
        /\ SetCalls = {}
        /\ nvs = nvs0

\* the members of enum storage_key among the keys used
ValidKeys == {STORAGE_KEY_NET_SETTINGS, STORAGE_KEY_ID}

\* C14 as stated: storage_set with a key that is no member of enum
\* storage_key returns -1 and leaves the store as it was; storage_get with a
\* key other than STORAGE_KEY_NET_SETTINGS returns -EINVAL without calling
\* nvs_read, and returns -EINVAL when nvs_read gives a length other than the
\* size of the record.
C14_InvalidKeysRejected ==
    /\ (st.op = "set" /\ st.key \notin ValidKeys) =>
          /\ st.rc = -1
          /\ st.store = st.before
    /\ (st.op = "get" /\ st.key # STORAGE_KEY_NET_SETTINGS) =>
          /\ st.rc = EINVAL_RC
          /\ ~st.read
    /\ (st.op = "get" /\ st.key = STORAGE_KEY_NET_SETTINGS
                      /\ st.len # SizeofNetSettings) =>
          st.rc = EINVAL_RC

\* the largest of a non-empty set of numbers
MaxOf(S) == CHOOSE m \in S : \A x \in S : x <= m

\* the geometry resolution of this attempt has run and succeeded
GeometryResolved ==
    /\ env["sectors"] = "ok"
    /\ pc \notin {"start", "sectors"}

\* C15 as stated: after the geometry resolution succeeded, boot_data.write_sz
\* is the largest of the write alignments of bank 0, bank 1 and the scratch
\* region.
C15_WriteSzIsMaxOfAllRegions ==
    GeometryResolved => write_sz = MaxOf({align[a] : a \in Areas})

\* C15 amended: after the geometry resolution succeeded, boot_data.write_sz
\* is the larger of the write alignments of bank 0 and of the scratch region;
\* the alignment of bank 1 is not looked at.  When the resolution failed,
\* write_sz is left as it was.
C15_WriteSzIsMaxOfBank0AndScratch ==
    /\ GeometryResolved =>
          write_sz = MaxOf({align["IMAGE_0"], align[FLASH_AREA_IMAGE_SCRATCH]})
    /\ (GeometryFailed /\ cold) => write_sz = 0

\* bank 1 has the coarsest alignment of the three regions and the scratch
\* region a coarser one than bank 0
C15_Witness ==
    /\ GeometryResolved
    /\ align["IMAGE_1"] > align[FLASH_AREA_IMAGE_SCRATCH]
    /\ align[FLASH_AREA_IMAGE_SCRATCH] > align["IMAGE_0"]
    /\ write_sz = align[FLASH_AREA_IMAGE_SCRATCH]

\* the header read of bank s has been made in this attempt and failed
HeaderReadFailed(s) ==
    /\ env[SiteOf("hdr", s)] \in {"open_fail", "read_fail"}
    /\ pc \notin {"start", "sectors"}
    /\ pc = "hdr" => i > s

\* C16 as stated: a bank whose header read failed in this attempt is never
\* the bank the descriptor names, whatever its header buffer holds.
C16_FailedHeaderReadDisqualifies ==
    \A s \in Slots :
        HeaderReadFailed(s) => ~(rsp.written /\ rsp.br_hdr = s)

\* both header reads of this attempt have been made
HeadersRead == GeometryResolved /\ pc # "hdr"

\* C17: if the header read failed for both banks, boot_go goes to the cleanup
\* with BOOT_EBADIMAGE and halts, without validating a slot, without calling
\* the preference store and without writing the descriptor; if it failed for
\* at most one bank, boot_go goes on and validates both slots.
C17_BothHeaderReadsFailedIsFatal ==
    /\ (HeadersRead /\ HeaderReadFailed(0) /\ HeaderReadFailed(1)) =>
          /\ pc \in {"hdr_check", "out", "halt"}
          /\ pc # "hdr_check" => rc = BOOT_EBADIMAGE
          /\ \A s \in Slots : val[s] = NoVal
          /\ store_log = <<>>
          /\ nvs = nvs0
          /\ ~rsp.written
    /\ (HeadersRead /\ ~(HeaderReadFailed(0) /\ HeaderReadFailed(1))
                    /\ pc \notin {"hdr_check", "validate"}) =>
          \A s \in Slots : val[s].class # "Unvalidated"

\* the header read of bank 0 failed, both slots were validated and boot_go
\* handed off to bank 1
C17_WitnessOneFailed ==
    /\ HeadersRead
    /\ HeaderReadFailed(0)
    /\ ~HeaderReadFailed(1)
    /\ val[0].class # "Unvalidated"
    /\ val[1].class = "Bootable"
    /\ HandedOffTo(1)

\* both header reads failed and boot_go has halted
C17_Witness ==
    /\ HeaderReadFailed(0)
    /\ HeaderReadFailed(1)
    /\ pc = "halt"

\* the regions boot_go opens for the duration of the call, in the order it
\* opens them
Acquired ==
    [s \in 1 .. BOOT_NUM_SLOTS |->
        FaEvent("open", flash_area_id_from_image_slot(s - 1))]
    \o <<FaEvent("open", FLASH_AREA_IMAGE_SCRATCH)>>

\* C18: whenever boot_go has returned or entered the halt loop, on the normal
\* path, on every fatal path and on the fallback path, the last handle calls
\* it made are the cleanup: the scratch region is closed first, then bank 1,
\* then bank 0, the reverse of the order in which the banks were opened at
\* the start of the call; and no step reaches the return or the halt loop
\* except the cleanup.
C18_CleanupOrder ==
    /\ Finished =>
          /\ Len(fa_log) >= 6
          /\ SubSeq(fa_log, 1, 3) = Acquired
          /\ fa_log[Len(fa_log) - 2] = FaEvent("close", FLASH_AREA_IMAGE_SCRATCH)
          /\ fa_log[Len(fa_log) - 1] = FaEvent("close", "IMAGE_1")
          /\ fa_log[Len(fa_log)] = FaEvent("close", "IMAGE_0")
    /\ ~Finished =>
          \A k \in 4 .. Len(fa_log) :
              fa_log[k] # FaEvent("close", FLASH_AREA_IMAGE_SCRATCH)

\* boot_go returned on the normal path with bank 0 selected, the cleanup done
C18_Witness ==
    /\ HandedOffTo(0)
    /\ PreferenceRead
    /\ Len(fa_log) > 6
    /\ fa_log[Len(fa_log) - 2] = FaEvent("close", FLASH_AREA_IMAGE_SCRATCH)
    /\ fa_log[Len(fa_log)] = FaEvent("close", "IMAGE_0")

\* the error kind an error line stands for: the panic line prints the code,
\* the other lines name the condition that sets their code
KindOf(e) ==
    IF e.msg = "Panic: Invalid image data or status" THEN e.arg
    ELSE IF e.msg = "Panic: Found invalid headers" THEN BOOT_EBADIMAGE
    ELSE IF e.msg \in {"Panic: Found invalid data on slots",
                       "Unable to init nvs", "Unable to read nvs"}
    THEN BOOT_EBADSTATUS
    ELSE 0

\* C19 as stated: whenever boot_go is in the halt state, an error line
\* carrying the error kind it halted with has been logged in this attempt.
C19_FatalIsLogged ==
    pc = "halt" =>
        \E k \in 1 .. Len(log) :
            /\ log[k].level = "ERR"
            /\ KindOf(log[k]) = rc

\* C20: within one attempt, a slot that has been validated with status 0
\* holds the image magic in its header buffer and has its non-bootable flag
\* clear; so when a candidate has been selected on the normal path the final
\* guard passes: neither its BOOT_EBADIMAGE branch nor its BOOT_EBADSTATUS
\* branch is taken, and boot_go comes out of the guard with result 0 and the
\* descriptor of the selected bank.
C20_FinalGuardNeverFails ==
    /\ \A s \in Slots :
          (val[s].class # "Unvalidated" /\ img_status[s] = 0) =>
              /\ hdr[s].ih_magic = IMAGE_MAGIC
              /\ ~NonBootable(hdr[s])
    /\ pc = "final" =>
          /\ slot \in Slots
          /\ hdr[slot].ih_magic = IMAGE_MAGIC
          /\ img_status[slot] = 0
    /\ (PreferenceRead /\ slot \in Slots /\ pc \in {"out", "returned", "halt"}) =>
          /\ rc = 0
          /\ rc \notin {BOOT_EBADIMAGE, BOOT_EBADSTATUS}
          /\ rsp.written
          /\ rsp.br_hdr = slot

\* bank 1 has been selected on the normal path and the guard is about to run
C20_Witness ==
    /\ pc = "final"
    /\ slot = 1
    /\ rd_settings > 0
    /\ val[0].class = "Bootable"

\* the first read of the preference has been made in this attempt and
\* succeeded
FirstReadSucceeded ==
    /\ Len(store_log) >= 2
    /\ store_log[2].op = "get"
    /\ store_log[2].ok

\* C21: at every point of a boot attempt, boot_go has called storage_set at
\* most once and only with the value 1 (bank 1); when the first read of the
\* preference succeeded it has made no such call and the stored record is
\* the one the attempt started with; the record differs from the one at the
\* start only by an accepted write of 1; and a record present at the start
\* is still present (boot_go never deletes it).
C21_StoreFrame ==
    /\ Cardinality(SetCalls) <= 1
    /\ \A k \in SetCalls : store_log[k].val = boot_slot
    /\ FirstReadSucceeded =>
          /\ SetCalls = {}
          /\ nvs = nvs0
    /\ nvs # nvs0 =>
          /\ nvs = Record(boot_slot)
          /\ \E k \in SetCalls : store_log[k].ok
    /\ nvs0.present => nvs.present

\* an attempt that found the preference 0 stored has ended with the record
\* untouched
C21_Witness ==
    /\ Finished
    /\ FirstReadSucceeded
    /\ nvs0 = Record(0)
    /\ nvs = Record(0)
    /\ SetCalls = {}

====
